---- MODULE Spec2Model ----
(***************************************************************************)
(* antlir2_vm share.rs: VirtiofsShare (one shared directory) and Shares    *)
(* (the set of shares of one VM).                                          *)
(*                                                                         *)
(* Text (String, PathBuf, OsString, file content) is a sequence of         *)
(* one-character strings.  XFF stands for a byte that is not valid UTF-8:  *)
(* a PathBuf or a process's stdout may hold it, a String may not.          *)
(* Option<T> is a sequence of length 0 (None) or 1 (Some).                 *)
(***************************************************************************)
EXTENDS Integers, Sequences, FiniteSets, TLC

VARIABLES shares, share, unit_files, children, result

vars == <<shares, share, unit_files, children, result>>

(***************************************************************************)
(* Bounds of the exploration.                                              *)
(***************************************************************************)
MaxShares == 2

MaxId == 3

MaxChildren == 1

(***************************************************************************)
(* Text helpers: the std operations the source calls.                      *)
(***************************************************************************)
XFF == "<ff>"

REPLACEMENT == "<U+FFFD>"

IsUtf8(s) == \A i \in 1..Len(s) : s[i] # XFF

\* Path::to_str / str::from_utf8: Some(text) when the bytes are valid UTF-8
to_str(p) == IF IsUtf8(p) THEN <<p>> ELSE <<>>

\* Path::to_string_lossy().to_string()
to_string_lossy(p) == [i \in 1..Len(p) |-> IF p[i] = XFF THEN REPLACEMENT ELSE p[i]]

Digits == <<"0","1","2","3","4","5","6","7","8","9">>

\* Display of a usize, as format!("{}", n) prints it
RECURSIVE Decimal(_)
Decimal(n) == IF n < 10 THEN <<Digits[n + 1]>>
              ELSE Decimal(n \div 10) \o <<Digits[(n % 10) + 1]>>

\* Path::join on unix: an absolute argument replaces the base, otherwise a
\* separator is added unless the base is empty or already ends with one
join(base, p) ==
    IF Len(p) > 0 /\ p[1] = "/" THEN p
    ELSE IF Len(base) > 0 /\ base[Len(base)] # "/" THEN base \o <<"/">> \o p
    ELSE base \o p

WhiteSpace == {" ", "\n", "\t", "\r"}

RECURSIVE TrimStart(_)
TrimStart(s) == IF Len(s) > 0 /\ s[1] \in WhiteSpace THEN TrimStart(Tail(s)) ELSE s

RECURSIVE TrimEnd(_)
TrimEnd(s) == IF Len(s) > 0 /\ s[Len(s)] \in WhiteSpace
              THEN TrimEnd(SubSeq(s, 1, Len(s) - 1)) ELSE s

\* str::trim
trim(s) == TrimEnd(TrimStart(s))

\* Iterator::flat_map(..).collect() over a Vec of Vecs
RECURSIVE Flatten(_)
Flatten(ss) == IF ss = <<>> THEN <<>> ELSE Head(ss) \o Flatten(Tail(ss))

(***************************************************************************)
(* Return values: Ok(v), Err(e) of ShareError, or a panic (expect on None) *)
(***************************************************************************)
Ok(v) == [kind |-> "Ok", val |-> v, err |-> "", msg |-> <<>>]

Err(e, m) == [kind |-> "Err", val |-> <<>>, err |-> e, msg |-> m]

Panic(m) == [kind |-> "Panic", val |-> <<>>, err |-> m, msg |-> <<>>]

IoError == <<"i","o">>

(***************************************************************************)
(* VirtiofsShare                                                           *)
(***************************************************************************)
ShareOpts(path, read_only, tag) == [path |-> path, read_only |-> read_only, mount_tag |-> tag]

VirtiofsShare_new(opts, id, state_dir) == [opts |-> opts, id |-> id, state_dir |-> state_dir]

\* the default tag without the id
mount_tag_without_id(s) ==
    IF s.opts.mount_tag # <<>> THEN s.opts.mount_tag[1]
    ELSE <<"f","s">>

mount_tag(s) ==
    IF s.opts.mount_tag # <<>> THEN s.opts.mount_tag[1]
    ELSE <<"f","s">> \o Decimal(s.id)

\* chardev_node named after the mount tag, as the socket is
chardev_node_from_tag(s) ==
    <<"f","s","_","c","h","a","r","d","e","v">>
        \o (IF s.opts.mount_tag # <<>> THEN s.opts.mount_tag[1] ELSE Decimal(s.id))

chardev_node(s) == <<"f","s","_","c","h","a","r","d","e","v">> \o Decimal(s.id)

socket_path(s) == join(s.state_dir, mount_tag(s))

(***************************************************************************)
(* The external tools the source runs.                                     *)
(***************************************************************************)
\* std::process::Output of a finished command, or the io::Error of a
\* command that could not be run
Output(status, stdout) == [spawned |-> TRUE, status |-> status, stdout |-> stdout]

CannotRun == [spawned |-> FALSE, status |-> -1, stdout |-> <<>>]

\* the components of a path: the non-empty pieces between separators,
\* without the "." ones
RECURSIVE Components(_, _)
Components(p, cur) ==
    IF p = <<>> THEN (IF cur \in {<<>>, <<".">>} THEN <<>> ELSE <<cur>>)
    ELSE IF Head(p) = "/"
         THEN (IF cur \in {<<>>, <<".">>} THEN <<>> ELSE <<cur>>) \o Components(Tail(p), <<>>)
         ELSE Components(Tail(p), Append(cur, Head(p)))

UnitSafe == {"a","b","c","d","e","f","g","h","i","j","k","l","m","n","o","p","q",
             "r","s","t","u","v","w","x","y","z","0","1","2","3","4","5","6","7",
             "8","9",":","_","."}

\* systemd's unit_name_escape of one byte
EscapeByte(c) ==
    IF c \in UnitSafe THEN <<c>>
    ELSE IF c = "-" THEN <<"\\","x","2","d">>
    ELSE IF c = XFF THEN <<"\\","x","f","f">>
    ELSE <<"\\","x","2","0">>

RECURSIVE EscapeComponent(_)
EscapeComponent(c) ==
    IF c = <<>> THEN <<>> ELSE EscapeByte(Head(c)) \o EscapeComponent(Tail(c))

RECURSIVE EscapeComponents(_)
EscapeComponents(cs) ==
    IF Len(cs) = 1 THEN EscapeComponent(cs[1])
    ELSE EscapeComponent(Head(cs)) \o <<"-">> \o EscapeComponents(Tail(cs))

\* `systemd-escape --suffix=mount --path <path>`: exits 1 with nothing on
\* stdout for a path that is not normalized, else prints the unit name
systemd_escape(path) ==
    LET cs == Components(path, <<>>) IN
    IF \E i \in 1..Len(cs) : cs[i] = <<".",".">> THEN Output(1, <<>>)
    ELSE Output(0, (IF cs = <<>> THEN <<"-">> ELSE EscapeComponents(cs))
                   \o <<".","m","o","u","n","t","\n">>)

\* what Command::output() can hand back for the escaper: the tool's own
\* answer, a failure to run it, a failed run, or bytes that are not text
EscaperOutputs(path) ==
    {systemd_escape(path), CannotRun, Output(1, <<>>), Output(0, <<XFF, "\n">>)}

\* get_runtime().virtiofsd
virtiofsd == <<"v","i","r","t","i","o","f","s","d">>

(***************************************************************************)
(* VirtiofsShare, continued                                                *)
(***************************************************************************)
mount_unit_name(s, output) ==
    IF ~output.spawned
    THEN Err("InvalidMountTagError", to_string_lossy(s.opts.path))
    ELSE IF to_str(output.stdout) = <<>>
    THEN Err("InvalidMountTagError", to_string_lossy(s.opts.path))
    ELSE Ok(trim(to_str(output.stdout)[1]))

\* the two arms of the match swapped
ro_or_rw_swapped(s) == IF s.opts.read_only THEN <<"r","w">> ELSE <<"r","o">>

ro_or_rw(s) == IF s.opts.read_only THEN <<"r","o">> ELSE <<"r","w">>

mount_unit_content(s) ==
    IF to_str(s.opts.path) = <<>> THEN Panic("Invalid UTF-8")
    ELSE LET tag == mount_tag(s)
             mountpoint == to_str(s.opts.path)[1]
         IN Ok(<<"[","U","n","i","t","]","\n">>
               \o <<"D","e","s","c","r","i","p","t","i","o","n","=","M","o","u","n","t"," ">>
               \o tag \o <<" ","a","t"," ">> \o mountpoint \o <<"\n">>
               \o <<"R","e","q","u","i","r","e","s","=","s","y","s","t","e","m","d","-","m","o","d","u","l","e","s","-","l","o","a","d",".","s","e","r","v","i","c","e","\n">>
               \o <<"A","f","t","e","r","=","s","y","s","t","e","m","d","-","m","o","d","u","l","e","s","-","l","o","a","d",".","s","e","r","v","i","c","e","\n">>
               \o <<"B","e","f","o","r","e","=","l","o","c","a","l","-","f","s",".","t","a","r","g","e","t","\n">>
               \o <<"\n">>
               \o <<"[","M","o","u","n","t","]","\n">>
               \o <<"W","h","a","t","=">> \o tag \o <<"\n">>
               \o <<"W","h","e","r","e","=">> \o mountpoint \o <<"\n">>
               \o <<"T","y","p","e","=","v","i","r","t","i","o","f","s","\n">>
               \o <<"O","p","t","i","o","n","s","=">> \o ro_or_rw(s))

\* the Command start_virtiofsd builds, before it is spawned
virtiofsd_command(s) ==
    IF to_str(socket_path(s)) = <<>> THEN Panic("socket file should be valid string")
    ELSE IF to_str(s.opts.path) = <<>> THEN Panic("Invalid UTF-8")
    ELSE Ok([program |-> virtiofsd,
             args |-> << <<"-","-","s","o","c","k","e","t","-","p","a","t","h","=">>
                            \o to_str(socket_path(s))[1],
                         <<"-","o">>,
                         <<"s","o","u","r","c","e","=">> \o to_str(s.opts.path)[1],
                         <<"-","o">>,
                         <<"c","a","c","h","e","=","a","l","w","a","y","s">> >>])

\* start_virtiofsd spawning again until the OS creates the process
start_virtiofsd_retry(s, spawn_ok) ==
    LET command == virtiofsd_command(s) IN
    IF command.kind = "Panic" THEN command
    ELSE Ok(command.val)

\* spawn_ok: whether the OS creates the process
start_virtiofsd(s, spawn_ok) ==
    LET command == virtiofsd_command(s) IN
    IF command.kind = "Panic" THEN command
    ELSE IF spawn_ok THEN Ok(command.val)
    ELSE Err("VirtiofsdError", IoError)

\* qemu_args with the socket always at the default fs{id} name
VirtiofsShare_qemu_args_default_socket(s) ==
    IF to_str(socket_path(s)) = <<>> THEN Panic("socket file should be valid string")
    ELSE Ok(<< <<"-","c","h","a","r","d","e","v">>,
               <<"s","o","c","k","e","t",",","i","d","=">> \o chardev_node(s)
                   \o <<",","p","a","t","h","=">>
                   \o join(s.state_dir, <<"f","s">> \o Decimal(s.id)),
               <<"-","d","e","v","i","c","e">>,
               <<"v","h","o","s","t","-","u","s","e","r","-","f","s","-","p","c","i",",",
                 "q","u","e","u","e","-","s","i","z","e","=","1","0","2","4",",",
                 "c","h","a","r","d","e","v","=">> \o chardev_node(s)
                   \o <<",","t","a","g","=">> \o mount_tag(s) >>)

\* qemu_args with the device pair ahead of the chardev pair
VirtiofsShare_qemu_args_device_first(s) ==
    IF to_str(socket_path(s)) = <<>> THEN Panic("socket file should be valid string")
    ELSE Ok(<< <<"-","d","e","v","i","c","e">>,
               <<"v","h","o","s","t","-","u","s","e","r","-","f","s","-","p","c","i",",",
                 "q","u","e","u","e","-","s","i","z","e","=","1","0","2","4",",",
                 "c","h","a","r","d","e","v","=">> \o chardev_node(s)
                   \o <<",","t","a","g","=">> \o mount_tag(s),
               <<"-","c","h","a","r","d","e","v">>,
               <<"s","o","c","k","e","t",",","i","d","=">> \o chardev_node(s)
                   \o <<",","p","a","t","h","=">> \o to_str(socket_path(s))[1] >>)

VirtiofsShare_qemu_args(s) ==
    IF to_str(socket_path(s)) = <<>> THEN Panic("socket file should be valid string")
    ELSE Ok(<< <<"-","c","h","a","r","d","e","v">>,
               <<"s","o","c","k","e","t",",","i","d","=">> \o chardev_node(s)
                   \o <<",","p","a","t","h","=">> \o to_str(socket_path(s))[1],
               <<"-","d","e","v","i","c","e">>,
               <<"v","h","o","s","t","-","u","s","e","r","-","f","s","-","p","c","i",",",
                 "q","u","e","u","e","-","s","i","z","e","=","1","0","2","4",",",
                 "c","h","a","r","d","e","v","=">> \o chardev_node(s)
                   \o <<",","t","a","g","=">> \o mount_tag(s) >>)

(***************************************************************************)
(* Shares                                                                  *)
(***************************************************************************)
\* Shares::new without its emptiness check
Shares_new_unchecked(list, mem_mb, unit_files_dir) ==
    Ok([shares |-> list, mem_mb |-> mem_mb, unit_files_dir |-> unit_files_dir])

Shares_new(list, mem_mb, unit_files_dir) ==
    IF list = <<>> THEN Err("EmptyShareError", <<>>)
    ELSE Ok([shares |-> list, mem_mb |-> mem_mb, unit_files_dir |-> unit_files_dir])

\* The unit files directory on disk: a function from the path of each file
\* that exists to its content.  A path that names the directory itself
\* cannot be opened for writing.
EmptyDir == <<>>

IsDirectory(target, dir) == Components(target, <<>>) = Components(dir, <<>>)

\* File::create: a new empty file, or an existing one truncated
create(fs, target) == [p \in DOMAIN fs \cup {target} |-> IF p = target THEN <<>> ELSE fs[p]]

\* the bytes write_all got onto disk: all of them, or those before the error
Written(content, w) ==
    IF w = "all" THEN content
    ELSE IF w = "half" THEN SubSeq(content, 1, Len(content) \div 2)
    ELSE <<>>

write(fs, target, bytes) == [fs EXCEPT ![target] = bytes]

\* what the environment answers while one share is processed: the
\* escaper's output, whether the file can be created, how much gets written;
\* at most one of the three departs from the ordinary
Scenarios(s) ==
    {[output |-> o, create_ok |-> TRUE, written |-> "all"] : o \in EscaperOutputs(s.opts.path)}
    \cup {[output |-> systemd_escape(s.opts.path), create_ok |-> FALSE, written |-> "all"]}
    \cup {[output |-> systemd_escape(s.opts.path), create_ok |-> TRUE, written |-> w] :
            w \in {"half", "none"}}

\* the closure with the file named after the mount tag, not the path
unit_file_step_by_tag(S, s, fs, e) ==
    LET name == mount_unit_name(s, e.output) IN
    IF name.kind # "Ok" THEN [ret |-> name, fs |-> fs, stage |-> "name"]
    ELSE LET content == mount_unit_content(s) IN
    IF content.kind # "Ok" THEN [ret |-> content, fs |-> fs, stage |-> "content"]
    ELSE LET target == join(S.unit_files_dir, mount_tag(s) \o <<".","m","o","u","n","t">>) IN
    IF ~e.create_ok \/ IsDirectory(target, S.unit_files_dir)
    THEN [ret |-> Err("MountUnitGenerationError", IoError), fs |-> fs, stage |-> "create"]
    ELSE IF e.written # "all"
    THEN [ret |-> Err("MountUnitGenerationError", IoError),
          fs |-> write(create(fs, target), target, Written(content.val, e.written)),
          stage |-> "write"]
    ELSE [ret |-> Ok(<<>>), fs |-> write(create(fs, target), target, content.val),
          stage |-> "done"]

\* the closure putting the directory back as it found it when the write fails
unit_file_step_rollback(S, s, fs, e) ==
    LET name == mount_unit_name(s, e.output) IN
    IF name.kind # "Ok" THEN [ret |-> name, fs |-> fs, stage |-> "name"]
    ELSE LET content == mount_unit_content(s) IN
    IF content.kind # "Ok" THEN [ret |-> content, fs |-> fs, stage |-> "content"]
    ELSE LET target == join(S.unit_files_dir, name.val) IN
    IF ~e.create_ok \/ IsDirectory(target, S.unit_files_dir)
    THEN [ret |-> Err("MountUnitGenerationError", IoError), fs |-> fs, stage |-> "create"]
    ELSE IF e.written # "all"
    THEN [ret |-> Err("MountUnitGenerationError", IoError), fs |-> fs, stage |-> "write"]
    ELSE [ret |-> Ok(<<>>), fs |-> write(create(fs, target), target, content.val),
          stage |-> "done"]

\* the closure generate_unit_files runs for one share
unit_file_step(S, s, fs, e) ==
    LET name == mount_unit_name(s, e.output) IN
    IF name.kind # "Ok" THEN [ret |-> name, fs |-> fs, stage |-> "name"]
    ELSE LET content == mount_unit_content(s) IN
    IF content.kind # "Ok" THEN [ret |-> content, fs |-> fs, stage |-> "content"]
    ELSE LET target == join(S.unit_files_dir, name.val) IN
    IF ~e.create_ok \/ IsDirectory(target, S.unit_files_dir)
    THEN [ret |-> Err("MountUnitGenerationError", IoError), fs |-> fs, stage |-> "create"]
    ELSE IF e.written # "all"
    THEN [ret |-> Err("MountUnitGenerationError", IoError),
          fs |-> write(create(fs, target), target, Written(content.val, e.written)),
          stage |-> "write"]
    ELSE [ret |-> Ok(<<>>), fs |-> write(create(fs, target), target, content.val),
          stage |-> "done"]

\* try_for_each from share i on: every way the call can end, with the
\* share it stopped at (0: none) and the directory it leaves
RECURSIVE try_for_each(_, _, _)
try_for_each(S, i, fs) ==
    IF i > Len(S.shares) THEN {[ret |-> Ok(<<>>), fs |-> fs, at |-> 0, stage |-> "done"]}
    ELSE UNION {
        LET r == unit_file_step(S, S.shares[i], fs, e) IN
        IF r.ret.kind = "Ok" THEN try_for_each(S, i + 1, r.fs)
        ELSE {[ret |-> r.ret, fs |-> r.fs, at |-> i, stage |-> r.stage]}
        : e \in Scenarios(S.shares[i]) }

generate_unit_files(S, fs) == try_for_each(S, 1, fs)

setup_share_qemu_args(S) ==
    IF to_str(S.unit_files_dir) = <<>> THEN Panic("Share path should be string")
    ELSE Ok(<< <<"-","v","i","r","t","f","s">>,
               <<"l","o","c","a","l",",","p","a","t","h","=">> \o to_str(S.unit_files_dir)[1]
                 \o <<",","s","e","c","u","r","i","t","y","_","m","o","d","e","l","=","n","o","n","e",
                      ",","m","u","l","t","i","d","e","v","s","=","r","e","m","a","p",
                      ",","m","o","u","n","t","_","t","a","g","=","e","x","p","o","r","t","s",
                      ",","r","e","a","d","o","n","l","y","=","o","n">> >>)

memory_file_qemu_args(S) ==
    << <<"-","o","b","j","e","c","t">>,
       <<"m","e","m","o","r","y","-","b","a","c","k","e","n","d","-","m","e","m","f","d",
         ",","i","d","=","m","e","m",",","s","h","a","r","e","=","o","n",
         ",","s","i","z","e","=">> \o Decimal(S.mem_mb) \o <<"M">>,
       <<"-","n","u","m","a">>,
       <<"n","o","d","e",",","m","e","m","d","e","v","=","m","e","m">> >>

\* qemu_args with the memory backend ahead of the setup share
Shares_qemu_args_memory_first(S) ==
    LET each == [i \in 1..Len(S.shares) |-> VirtiofsShare_qemu_args(S.shares[i])]
        bad == {i \in 1..Len(S.shares) : each[i].kind # "Ok"}
        setup == setup_share_qemu_args(S)
    IN IF bad # {} THEN each[CHOOSE i \in bad : \A j \in bad : i <= j]
       ELSE IF setup.kind # "Ok" THEN setup
       ELSE Ok(Flatten([i \in 1..Len(S.shares) |-> each[i].val])
               \o memory_file_qemu_args(S) \o setup.val)

Shares_qemu_args(S) ==
    LET each == [i \in 1..Len(S.shares) |-> VirtiofsShare_qemu_args(S.shares[i])]
        bad == {i \in 1..Len(S.shares) : each[i].kind # "Ok"}
        setup == setup_share_qemu_args(S)
    IN IF bad # {} THEN each[CHOOSE i \in bad : \A j \in bad : i <= j]
       ELSE IF setup.kind # "Ok" THEN setup
       ELSE Ok(Flatten([i \in 1..Len(S.shares) |-> each[i].val])
               \o setup.val \o memory_file_qemu_args(S))

(***************************************************************************)
(* Inputs                                                                  *)
(***************************************************************************)
\* the path, state directory and tag of the source's tests
TestPath == <<"/","t","h","i","s","/","i","s","/","a","/","t","e","s","t">>

TestStateDir == <<"/","t","m","p","/","t","e","s","t">>

TestTag == <<"w","h","a","t","e","v","e","r">>

\* a path that is not normalized, and paths that are not valid UTF-8
DotDotPath == <<"/","a","/",".",".","/","b">>

BadPath == <<"/","b",XFF>>

BadDir == <<"/","t","m","p","/",XFF>>

UnitDir == <<"/","t","m","p","/","u","n","i","t","s">>

Paths == {TestPath, <<"/","b">>, DotDotPath, BadPath}

Tags == {<<>>, <<TestTag>>, << <<"f","s","1">> >>}

StateDirs == {TestStateDir, BadDir}

\* mem_mb and unit_files_dir of a Shares: those of the tests, and a directory
\* that is not valid UTF-8
Configs == {<<1024, UnitDir>>, <<8, BadDir>>}

AllOpts == {ShareOpts(p, r, t) : p \in Paths, r \in BOOLEAN, t \in Tags}

\* the shares a Shares is built from here: the two of the tests (same path,
\* so same unit name), one with another path, one whose path the escaper
\* rejects, and one whose path and state directory are not valid UTF-8
SetShares ==
    {VirtiofsShare_new(ShareOpts(TestPath, TRUE, <<>>), 3, TestStateDir),
     VirtiofsShare_new(ShareOpts(TestPath, FALSE, <<TestTag>>), 3, TestStateDir),
     VirtiofsShare_new(ShareOpts(<<"/","b">>, FALSE, <<>>), 0, TestStateDir),
     VirtiofsShare_new(ShareOpts(DotDotPath, TRUE, <<>>), 1, TestStateDir),
     VirtiofsShare_new(ShareOpts(BadPath, TRUE, <<>>), 12, BadDir)}

SeqsUpTo(S, n) == UNION {[1..k -> S] : k \in 0..n}

(***************************************************************************)
(* State: the Shares and the stand-alone VirtiofsShare the caller holds    *)
(* (Option), the files of the unit files directory, the processes spawned, *)
(* and the last call with what it returned.                                *)
(***************************************************************************)
\* env: what the environment did during the call
Call(op, arg, env, ret) == [op |-> op, arg |-> arg, env |-> env, ret |-> ret]

Init ==
    /\ shares = <<>>
    /\ share = <<>>
    /\ unit_files = EmptyDir
    /\ children = <<>>
    /\ result = Call("", <<>>, <<>>, Ok(<<>>))

\* a panic ends the program
Running == result.ret.kind # "Panic"

\* the shares a method can be called on
Receivers == {share[i] : i \in 1..Len(share)}
             \cup (IF shares = <<>> THEN {}
                   ELSE {shares[1].shares[i] : i \in 1..Len(shares[1].shares)})

SharesNew ==
    /\ Running
    /\ shares = <<>>
    /\ \E list \in SeqsUpTo(SetShares, MaxShares), c \in Configs :
          LET r == Shares_new(list, c[1], c[2]) IN
          /\ shares' = IF r.kind = "Ok" THEN <<r.val>> ELSE <<>>
          /\ result' = Call("Shares::new", list, <<>>, r)
    /\ UNCHANGED <<share, unit_files, children>>

GenerateUnitFiles ==
    /\ Running
    /\ shares # <<>>
    /\ \E o \in generate_unit_files(shares[1], unit_files) :
          /\ unit_files' = o.fs
          /\ result' = Call("generate_unit_files", unit_files,
                            [at |-> o.at, stage |-> o.stage], o.ret)
    /\ UNCHANGED <<shares, share, children>>

SharesQemuArgs ==
    /\ Running
    /\ shares # <<>>
    /\ result' = Call("Shares::qemu_args", <<>>, <<>>, Shares_qemu_args(shares[1]))
    /\ UNCHANGED <<shares, share, unit_files, children>>

VirtiofsShareNew ==
    /\ Running
    /\ share = <<>>
    /\ \E opts \in AllOpts, id \in 0..MaxId, state_dir \in StateDirs :
          /\ share' = <<VirtiofsShare_new(opts, id, state_dir)>>
          /\ result' = Call("VirtiofsShare::new", <<opts, id, state_dir>>, <<>>, Ok(<<>>))
    /\ UNCHANGED <<shares, unit_files, children>>

MountTag ==
    /\ Running
    /\ \E s \in Receivers : result' = Call("mount_tag", s, <<>>, Ok(mount_tag(s)))
    /\ UNCHANGED <<shares, share, unit_files, children>>

ChardevNode ==
    /\ Running
    /\ \E s \in Receivers : result' = Call("chardev_node", s, <<>>, Ok(chardev_node(s)))
    /\ UNCHANGED <<shares, share, unit_files, children>>

SocketPath ==
    /\ Running
    /\ \E s \in Receivers : result' = Call("socket_path", s, <<>>, Ok(socket_path(s)))
    /\ UNCHANGED <<shares, share, unit_files, children>>

MountUnitName ==
    /\ Running
    /\ \E s \in Receivers : \E output \in EscaperOutputs(s.opts.path) :
          result' = Call("mount_unit_name", s, output, mount_unit_name(s, output))
    /\ UNCHANGED <<shares, share, unit_files, children>>

MountUnitContent ==
    /\ Running
    /\ \E s \in Receivers : result' = Call("mount_unit_content", s, <<>>, mount_unit_content(s))
    /\ UNCHANGED <<shares, share, unit_files, children>>

StartVirtiofsd ==
    /\ Running
    /\ Len(children) < MaxChildren
    /\ \E s \in Receivers, spawn_ok \in BOOLEAN :
          LET r == start_virtiofsd(s, spawn_ok) IN
          /\ children' = IF r.kind = "Ok" THEN Append(children, r.val) ELSE children
          /\ result' = Call("start_virtiofsd", s, spawn_ok, r)
    /\ UNCHANGED <<shares, share, unit_files>>

QemuArgs ==
    /\ Running
    /\ \E s \in Receivers : result' = Call("qemu_args", s, <<>>, VirtiofsShare_qemu_args(s))
    /\ UNCHANGED <<shares, share, unit_files, children>>

\* the options a VM is launched with here
LaunchOpts ==
    {ShareOpts(TestPath, TRUE, <<>>),
     ShareOpts(TestPath, FALSE, <<TestTag>>),
     ShareOpts(<<"/","b">>, FALSE, <<>>),
     ShareOpts(<<"/","b">>, TRUE, << <<"f","s","1">> >>)}

\* the caller of VirtiofsShare::new and Shares::new: one share per
\* configured directory, its index its position in the list, all with the
\* state directory of the VM
Launch ==
    /\ Running
    /\ shares = <<>>
    /\ \E opts \in SeqsUpTo(LaunchOpts, MaxShares) :
          LET list == [i \in 1..Len(opts) |-> VirtiofsShare_new(opts[i], i - 1, TestStateDir)]
              r == Shares_new(list, 1024, UnitDir)
          IN /\ shares' = IF r.kind = "Ok" THEN <<r.val>> ELSE <<>>
             /\ result' = Call("Shares::new", list, <<>>, r)
    /\ UNCHANGED <<share, unit_files, children>>

\* a Shares and the calls on it
Next == SharesNew \/ GenerateUnitFiles \/ SharesQemuArgs

Spec == Init /\ [][Next]_vars

\* one VirtiofsShare and the calls on it
NextShare ==
    \/ VirtiofsShareNew
    \/ MountTag
    \/ ChardevNode
    \/ SocketPath
    \/ MountUnitName
    \/ MountUnitContent
    \/ StartVirtiofsd
    \/ QemuArgs

SpecShare == Init /\ [][NextShare]_vars

(***************************************************************************)
(* Reading text back: what a consumer of the arguments and of the unit     *)
(* file finds in them.                                                     *)
(***************************************************************************)
IsPrefix(pre, s) == Len(pre) <= Len(s) /\ SubSeq(s, 1, Len(pre)) = pre

IsStrictPrefix(pre, s) == Len(pre) < Len(s) /\ SubSeq(s, 1, Len(pre)) = pre

\* where pat first occurs in s, 0 when it does not
Find(s, pat) ==
    LET at == {i \in 1..(Len(s) - Len(pat) + 1) : SubSeq(s, i, i + Len(pat) - 1) = pat}
    IN IF at = {} THEN 0 ELSE CHOOSE i \in at : \A j \in at : i <= j

Before(s, pat) == SubSeq(s, 1, Find(s, pat) - 1)

After(s, pat) == SubSeq(s, Find(s, pat) + Len(pat), Len(s))

\* the value of the line `key=value` of a unit file
UnitField(text, key) ==
    LET rest == After(text, <<"\n">> \o key \o <<"=">>)
    IN IF Find(rest, <<"\n">>) = 0 THEN rest ELSE Before(rest, <<"\n">>)

\* the fields of a `-chardev socket,id=..,path=..` definition
ChardevId(arg) == Before(After(arg, <<",","i","d","=">>), <<",","p","a","t","h","=">>)

ChardevPath(arg) == After(arg, <<",","p","a","t","h","=">>)

\* the fields of a `-device vhost-user-fs-pci,..,chardev=..,tag=..` definition
DeviceChardev(arg) ==
    Before(After(arg, <<",","c","h","a","r","d","e","v","=">>), <<",","t","a","g","=">>)

DeviceTag(arg) == After(arg, <<",","t","a","g","=">>)

\* the shares of the tests, and what the tests expect of the first
TestShare == VirtiofsShare_new(ShareOpts(TestPath, TRUE, <<>>), 3, TestStateDir)

TestShareTagged == VirtiofsShare_new(ShareOpts(TestPath, FALSE, <<TestTag>>), 3, TestStateDir)

TestUnitContent ==
    <<"[","U","n","i","t","]","\n","D","e","s","c","r","i","p","t","i","o","n","=","M",
    "o","u","n","t"," ","f","s","3"," ","a","t"," ","/","t","h","i","s","/","i","s","/",
    "a","/","t","e","s","t","\n","R","e","q","u","i","r","e","s","=","s","y","s","t",
    "e","m","d","-","m","o","d","u","l","e","s","-","l","o","a","d",".","s","e","r","v",
    "i","c","e","\n","A","f","t","e","r","=","s","y","s","t","e","m","d","-","m","o",
    "d","u","l","e","s","-","l","o","a","d",".","s","e","r","v","i","c","e","\n","B",
    "e","f","o","r","e","=","l","o","c","a","l","-","f","s",".","t","a","r","g","e","t",
    "\n","\n","[","M","o","u","n","t","]","\n","W","h","a","t","=","f","s","3","\n","W",
    "h","e","r","e","=","/","t","h","i","s","/","i","s","/","a","/","t","e","s","t",
    "\n","T","y","p","e","=","v","i","r","t","i","o","f","s","\n","O","p","t","i","o",
    "n","s","=","r","o">>

TestQemuArgs ==
    << <<"-","c","h","a","r","d","e","v">>,
       <<"s","o","c","k","e","t",",","i","d","=","f","s","_","c","h","a","r","d","e","v","3",
         ",","p","a","t","h","=","/","t","m","p","/","t","e","s","t","/","f","s","3">>,
       <<"-","d","e","v","i","c","e">>,
       <<"v","h","o","s","t","-","u","s","e","r","-","f","s","-","p","c","i",",","q","u","e",
         "u","e","-","s","i","z","e","=","1","0","2","4",",","c","h","a","r","d","e","v","=",
         "f","s","_","c","h","a","r","d","e","v","3",",","t","a","g","=","f","s","3">> >>

AllShares == {VirtiofsShare_new(o, i, d) : o \in AllOpts, i \in 0..MaxId, d \in StateDirs}

(***************************************************************************)
(* Claims                                                                  *)
(***************************************************************************)

\* C1: Shares::new returns EmptyShareError exactly when the list of shares is
\* empty, and otherwise a Shares holding the given shares in the given order;
\* so no Shares that exists has zero shares, whatever is called on it.
C1_NewRejectsExactlyEmpty ==
    /\ result.op = "Shares::new" =>
          /\ (result.ret.kind = "Err" /\ result.ret.err = "EmptyShareError")
                <=> (result.arg = <<>>)
          /\ result.arg # <<>> =>
                /\ result.ret.kind = "Ok"
                /\ result.ret.val.shares = result.arg
                /\ shares = <<result.ret.val>>
          /\ result.arg = <<>> => shares = <<>>
    /\ shares # <<>> => Len(shares[1].shares) > 0

\* C1 witness: an empty list was given and refused
C1_Witness ==
    /\ result.op = "Shares::new"
    /\ result.arg = <<>>
    /\ result.ret.err = "EmptyShareError"
    /\ shares = <<>>

\* C2: the artifacts of one share are addressed from one identity: the
\* --socket-path handed to the daemon is the path of the -chardev definition,
\* the id of the -chardev definition is the chardev of the -device definition,
\* the tag of the -device definition is the What= of the unit, and the
\* daemon's source directory is the Where= of the unit.
C2_OneIdentity ==
    /\ (result.op = "start_virtiofsd" /\ result.ret.kind = "Ok") =>
          LET s == result.arg
              args == result.ret.val.args
              q == VirtiofsShare_qemu_args(s)
              u == mount_unit_content(s)
          IN /\ q.kind = "Ok" /\ u.kind = "Ok"
             /\ IsPrefix(<<"-","-","s","o","c","k","e","t","-","p","a","t","h","=">>, args[1])
             /\ After(args[1], <<"-","-","s","o","c","k","e","t","-","p","a","t","h","=">>)
                   = ChardevPath(q.val[2])
             /\ IsPrefix(<<"s","o","u","r","c","e","=">>, args[3])
             /\ After(args[3], <<"s","o","u","r","c","e","=">>)
                   = UnitField(u.val, <<"W","h","e","r","e">>)
             /\ children # <<>> /\ children[Len(children)].args = args
    /\ (result.op = "qemu_args" /\ result.ret.kind = "Ok") =>
          LET s == result.arg
              q == result.ret.val
              d == virtiofsd_command(s)
              u == mount_unit_content(s)
          IN /\ ChardevId(q[2]) = DeviceChardev(q[4])
             /\ u.kind = "Ok" => DeviceTag(q[4]) = UnitField(u.val, <<"W","h","a","t">>)
             /\ d.kind = "Ok" =>
                   After(d.val.args[1], <<"-","-","s","o","c","k","e","t","-","p","a","t","h","=">>)
                      = ChardevPath(q[2])

\* C2 witness: a daemon was spawned for a share with an explicit tag
C2_Witness ==
    /\ result.op = "start_virtiofsd"
    /\ result.ret.kind = "Ok"
    /\ result.arg.opts.mount_tag = <<TestTag>>
    /\ Len(children) = 1

\* C3: mount_tag is the explicit tag when there is one and fs{id} otherwise;
\* chardev_node is fs_chardev{id} with or without an explicit tag;
\* socket_path is state_dir joined with the mount tag.
C3_DerivedNames ==
    LET s == result.arg
        tag == IF s.opts.mount_tag = <<>> THEN <<"f","s">> \o Decimal(s.id)
               ELSE s.opts.mount_tag[1]
    IN /\ result.op = "mount_tag" =>
             /\ result.ret = Ok(tag)
             /\ s = TestShare => result.ret.val = <<"f","s","3">>
             /\ s = TestShareTagged => result.ret.val = TestTag
       /\ result.op = "chardev_node" =>
             /\ result.ret = Ok(<<"f","s","_","c","h","a","r","d","e","v">> \o Decimal(s.id))
             /\ s \in {TestShare, TestShareTagged} =>
                   result.ret.val = <<"f","s","_","c","h","a","r","d","e","v","3">>
       /\ result.op = "socket_path" =>
             /\ result.ret = Ok(join(s.state_dir, tag))
             /\ s = TestShare =>
                   result.ret.val = <<"/","t","m","p","/","t","e","s","t","/","f","s","3">>
             /\ s = TestShareTagged =>
                   result.ret.val = <<"/","t","m","p","/","t","e","s","t","/",
                                      "w","h","a","t","e","v","e","r">>

\* C3 witness: chardev_node was asked of a share with an explicit tag
C3_Witness ==
    /\ result.op = "chardev_node"
    /\ result.arg = TestShareTagged
    /\ result.ret.val = <<"f","s","_","c","h","a","r","d","e","v","3">>

\* C4, as claimed: mount_unit_name fails with InvalidMountTagError whenever
\* the escaper cannot be run, exits with a non-zero status or prints bytes
\* that are not text, and returns a name only when the escaper ran
\* successfully.
C4_EscaperFailureIsAnError ==
    result.op = "mount_unit_name" =>
        LET output == result.env
            failed == \/ ~output.spawned
                      \/ output.status # 0
                      \/ ~IsUtf8(output.stdout)
        IN /\ failed => (result.ret.kind = "Err" /\ result.ret.err = "InvalidMountTagError")
           /\ result.ret.kind = "Ok" => ~failed

\* what C9 says qemu_args returns for share s
FourTokens(s, ret) ==
    /\ ret.kind = "Ok"
    /\ Len(ret.val) = 4
    /\ ret.val[1] = <<"-","c","h","a","r","d","e","v">>
    /\ IsPrefix(<<"s","o","c","k","e","t",",","i","d","=">>, ret.val[2])
    /\ ChardevId(ret.val[2]) = <<"f","s","_","c","h","a","r","d","e","v">> \o Decimal(s.id)
    /\ ChardevPath(ret.val[2]) = socket_path(s)
    /\ ret.val[3] = <<"-","d","e","v","i","c","e">>
    /\ IsPrefix(<<"v","h","o","s","t","-","u","s","e","r","-","f","s","-","p","c","i",",",
                  "q","u","e","u","e","-","s","i","z","e","=","1","0","2","4",",",
                  "c","h","a","r","d","e","v","=">>, ret.val[4])
    /\ DeviceChardev(ret.val[4]) = ChardevId(ret.val[2])
    /\ DeviceTag(ret.val[4]) = mount_tag(s)
    /\ s = TestShare => ret.val = TestQemuArgs

\* C9, as claimed: qemu_args yields the four tokens for every share,
\* whatever its options, id and state_dir.
C9_AlwaysFourTokens ==
    result.op = "qemu_args" => FourTokens(result.arg, result.ret)

\* C9, amended: qemu_args yields exactly four tokens (-chardev, a socket
\* chardev with id fs_chardev{id} and path socket_path, -device, a
\* vhost-user-fs-pci device with queue-size 1024, the same chardev id and
\* tag mount_tag, in that order) for every share whose socket_path is valid
\* UTF-8, and panics for every other share.
C9_FourTokensWhenUtf8 ==
    result.op = "qemu_args" =>
        IF IsUtf8(socket_path(result.arg))
        THEN FourTokens(result.arg, result.ret)
        ELSE result.ret.kind = "Panic"

\* C9 witness: qemu_args returned for the tagged share of the tests
C9_Witness ==
    /\ result.op = "qemu_args"
    /\ result.arg = TestShareTagged
    /\ result.ret.kind = "Ok"

\* what C10 says mount_unit_content returns for share s
PureRendering(s, ret) ==
    /\ ret.kind = "Ok"
    /\ ret = mount_unit_content(s)
    /\ UnitField(ret.val, <<"W","h","a","t">>) = mount_tag(s)
    /\ UnitField(ret.val, <<"W","h","e","r","e">>) = s.opts.path
    /\ s.opts.read_only <=> UnitField(ret.val, <<"O","p","t","i","o","n","s">>) = <<"r","o">>
    /\ ~s.opts.read_only <=> UnitField(ret.val, <<"O","p","t","i","o","n","s">>) = <<"r","w">>
    /\ \A t \in AllShares :
          (/\ mount_tag(t) = mount_tag(s)
           /\ t.opts.path = s.opts.path
           /\ t.opts.read_only = s.opts.read_only) => mount_unit_content(t) = ret
    /\ s = TestShare => ret.val = TestUnitContent

\* C10, as claimed: mount_unit_content has no failure mode; for every share
\* it returns text that depends on mount_tag, path and read_only only, with
\* Options=ro exactly when read_only.
C10_NeverFails ==
    result.op = "mount_unit_content" => PureRendering(result.arg, result.ret)

\* C10, amended: for every share whose path is valid UTF-8
\* mount_unit_content returns text that depends on mount_tag, path and
\* read_only only, with Options=ro exactly when read_only and rw otherwise;
\* for a path that is not valid UTF-8 it panics.
C10_PureWhenUtf8 ==
    result.op = "mount_unit_content" =>
        IF IsUtf8(result.arg.opts.path)
        THEN PureRendering(result.arg, result.ret)
        ELSE result.ret.kind = "Panic"

\* C10 witness: the read-write share of the tests was rendered
C10_Witness ==
    /\ result.op = "mount_unit_content"
    /\ result.arg = TestShareTagged
    /\ result.ret.kind = "Ok"
    /\ UnitField(result.ret.val, <<"O","p","t","i","o","n","s">>) = <<"r","w">>

\* C8: Shares::qemu_args returns every share's qemu_args in list order, then
\* the -virtfs pair of the setup share (rooted at unit_files_dir, tagged
\* exports, read-only), then the memory backend arguments with size={mem_mb}M:
\* 4n+6 tokens for n shares, each share's -chardev ahead of its -device.
C8_QemuArgsConcatenation ==
    (result.op = "Shares::qemu_args" /\ result.ret.kind = "Ok") =>
        LET S == shares[1]
            n == Len(S.shares)
            v == result.ret.val
        IN /\ Len(v) = 4 * n + 6
           /\ \A i \in 1..n :
                 /\ VirtiofsShare_qemu_args(S.shares[i]).kind = "Ok"
                 /\ SubSeq(v, 4 * i - 3, 4 * i) = VirtiofsShare_qemu_args(S.shares[i]).val
                 /\ v[4 * i - 3] = <<"-","c","h","a","r","d","e","v">>
                 /\ ChardevPath(v[4 * i - 2]) = socket_path(S.shares[i])
                 /\ v[4 * i - 1] = <<"-","d","e","v","i","c","e">>
                 /\ DeviceTag(v[4 * i]) = mount_tag(S.shares[i])
           /\ v[4 * n + 1] = <<"-","v","i","r","t","f","s">>
           /\ IsPrefix(<<"l","o","c","a","l",",","p","a","t","h","=">> \o S.unit_files_dir
                          \o <<",">>, v[4 * n + 2])
           /\ Find(v[4 * n + 2], <<",","m","o","u","n","t","_","t","a","g","=",
                                   "e","x","p","o","r","t","s",",">>) > 0
           /\ After(v[4 * n + 2], <<",","r","e","a","d","o","n","l","y","=">>) = <<"o","n">>
           /\ v[4 * n + 3] = <<"-","o","b","j","e","c","t">>
           /\ IsPrefix(<<"m","e","m","o","r","y","-","b","a","c","k","e","n","d","-",
                         "m","e","m","f","d",",">>, v[4 * n + 4])
           /\ After(v[4 * n + 4], <<",","s","i","z","e","=">>) = Decimal(S.mem_mb) \o <<"M">>
           /\ S.mem_mb = 1024 =>
                 After(v[4 * n + 4], <<",","s","i","z","e","=">>) = <<"1","0","2","4","M">>
           /\ v[4 * n + 5] = <<"-","n","u","m","a">>
           /\ v[4 * n + 6] = <<"n","o","d","e",",","m","e","m","d","e","v","=","m","e","m">>

\* C8 witness: the arguments of a Shares of two shares were built
C8_Witness ==
    /\ result.op = "Shares::qemu_args"
    /\ result.ret.kind = "Ok"
    /\ Len(shares[1].shares) = 2
    /\ Len(result.ret.val) = 14

\* the unit file of share s of S: the name the escaper gives its path,
\* under unit_files_dir, and the text to be in it
UnitTarget(S, s) ==
    join(S.unit_files_dir, mount_unit_name(s, systemd_escape(s.opts.path)).val)

UnitContent(s) == mount_unit_content(s).val

\* the last share among the first k of S with the unit file p
LastFor(S, k, p) ==
    CHOOSE i \in 1..k :
        /\ UnitTarget(S, S.shares[i]) = p
        /\ \A j \in 1..k : UnitTarget(S, S.shares[j]) = p => j <= i

\* generate_unit_files has just failed with an I/O error
FailedOnIo ==
    /\ result.op = "generate_unit_files"
    /\ result.ret.kind = "Err"
    /\ result.ret.err = "MountUnitGenerationError"

\* C5, as claimed: generate_unit_files stops at the first I/O error with
\* MountUnitGenerationError; the file of every share before the failing one
\* is on disk with full content, and nothing is created or modified for the
\* shares after it.
C5_EarlierFilesKeptInFull ==
    FailedOnIo =>
        LET S == shares[1]
            k == result.env.at
            pre == result.arg
            done == {UnitTarget(S, S.shares[j]) : j \in 1..k}
        IN /\ k \in 1..Len(S.shares)
           /\ \A j \in 1..(k - 1) :
                 /\ UnitTarget(S, S.shares[j]) \in DOMAIN unit_files
                 /\ \E i \in 1..(k - 1) :
                       /\ UnitTarget(S, S.shares[i]) = UnitTarget(S, S.shares[j])
                       /\ unit_files[UnitTarget(S, S.shares[j])] = UnitContent(S.shares[i])
           /\ \A p \in (DOMAIN unit_files \cup DOMAIN pre) \ done :
                 p \in DOMAIN pre /\ p \in DOMAIN unit_files /\ unit_files[p] = pre[p]

\* C5, amended: generate_unit_files stops at the first I/O error with
\* MountUnitGenerationError and rolls nothing back: every share before the
\* failing one was written in full, so each of their files holds the full
\* content of the last of them with that unit name, except that a failed
\* write leaves the failing share's own file cut to the bytes written, also
\* when an earlier share with the same unit name had written it in full; no
\* other file is created or modified.
C5_NoRollbackButTruncation ==
    FailedOnIo =>
        LET S == shares[1]
            k == result.env.at
            pre == result.arg
            mine == UnitTarget(S, S.shares[k])
            cut == IF result.env.stage = "write" THEN {mine} ELSE {}
            earlier == {UnitTarget(S, S.shares[j]) : j \in 1..(k - 1)}
        IN /\ k \in 1..Len(S.shares)
           /\ result.env.stage \in {"create", "write"}
           /\ \A p \in cut :
                 p \in DOMAIN unit_files /\ IsStrictPrefix(unit_files[p], UnitContent(S.shares[k]))
           /\ \A p \in earlier \ cut :
                 /\ p \in DOMAIN unit_files
                 /\ unit_files[p] = UnitContent(S.shares[LastFor(S, k - 1, p)])
           /\ \A p \in (DOMAIN unit_files \cup DOMAIN pre) \ (earlier \cup cut) :
                 p \in DOMAIN pre /\ p \in DOMAIN unit_files /\ unit_files[p] = pre[p]

\* C5 witness: the write of the second share's file failed, the first
\* share's file, another one, is in the directory in full
C5_Witness ==
    /\ FailedOnIo
    /\ result.env.at = 2
    /\ result.env.stage = "write"
    /\ result.arg = EmptyDir
    /\ UnitTarget(shares[1], shares[1].shares[1]) # UnitTarget(shares[1], shares[1].shares[2])
    /\ unit_files[UnitTarget(shares[1], shares[1].shares[1])] = UnitContent(shares[1].shares[1])

\* generate_unit_files has just succeeded in a directory that was empty
GeneratedFromEmpty ==
    /\ result.op = "generate_unit_files"
    /\ result.ret.kind = "Ok"
    /\ result.arg = EmptyDir

\* C6, as claimed: after a successful generate_unit_files into an empty
\* directory there is one unit file per share, n in all, each named by the
\* share's mount_unit_name and holding the share's mount_unit_content.
C6_OneFilePerShare ==
    GeneratedFromEmpty =>
        LET S == shares[1] IN
        /\ Cardinality(DOMAIN unit_files) = Len(S.shares)
        /\ \A i \in 1..Len(S.shares) :
              /\ UnitTarget(S, S.shares[i]) \in DOMAIN unit_files
              /\ unit_files[UnitTarget(S, S.shares[i])] = UnitContent(S.shares[i])

\* C6, amended: after a successful generate_unit_files into an empty
\* directory there is one unit file per distinct mount_unit_name of the
\* shares (n files when the names are pairwise distinct), each holding the
\* mount_unit_content of the last share in list order with that name.
C6_OneFilePerUnitName ==
    GeneratedFromEmpty =>
        LET S == shares[1]
            n == Len(S.shares)
        IN /\ DOMAIN unit_files = {UnitTarget(S, S.shares[i]) : i \in 1..n}
           /\ \A p \in DOMAIN unit_files :
                 unit_files[p] = UnitContent(S.shares[LastFor(S, n, p)])
           /\ (\A i, j \in 1..n : i # j => UnitTarget(S, S.shares[i]) # UnitTarget(S, S.shares[j]))
                 => Cardinality(DOMAIN unit_files) = n
           /\ \A i \in 1..n :
                 S.shares[i] = TestShare =>
                    join(S.unit_files_dir,
                         <<"t","h","i","s","-","i","s","-","a","-","t","e","s","t",
                           ".","m","o","u","n","t">>) \in DOMAIN unit_files

\* C6 witness: two shares with different paths, two files
C6_Witness ==
    /\ GeneratedFromEmpty
    /\ Len(shares[1].shares) = 2
    /\ Cardinality(DOMAIN unit_files) = 2
    /\ TestShare = shares[1].shares[1]

\* a Shares built by the launch of a VM, and the calls on its shares
NextLaunch ==
    \/ Launch
    \/ MountTag
    \/ ChardevNode
    \/ SocketPath
    \/ StartVirtiofsd

SpecLaunch == Init /\ [][NextLaunch]_vars

\* two shares of the Shares, both without an explicit tag
DefaultPair(i, j) ==
    /\ i # j
    /\ shares[1].shares[i].opts.mount_tag = <<>>
    /\ shares[1].shares[j].opts.mount_tag = <<>>

LifeShares ==
    {TestShare,
     TestShareTagged,
     VirtiofsShare_new(ShareOpts(BadPath, TRUE, <<>>), 12, BadDir)}

\* Shares::new, with mem_mb and unit_files_dir of the tests
SharesNewForLife ==
    /\ Running
    /\ shares = <<>>
    /\ \E list \in SeqsUpTo(LifeShares, MaxShares) :
          LET r == Shares_new(list, 1024, UnitDir) IN
          /\ shares' = IF r.kind = "Ok" THEN <<r.val>> ELSE <<>>
          /\ result' = Call("Shares::new", list, <<>>, r)
    /\ UNCHANGED <<share, unit_files, children>>

\* a Shares and every call on it and on its shares, in any order
NextLife ==
    \/ SharesNewForLife
    \/ GenerateUnitFiles
    \/ SharesQemuArgs
    \/ MountUnitContent
    \/ QemuArgs
    \/ StartVirtiofsd

SpecLife == Init /\ [][NextLife]_vars

\* C11: a Shares and its shares are stateless once constructed: whatever is
\* called on them, in any order, their fields stay as they are, so qemu_args
\* and mount_unit_content return what they return for the shares as
\* constructed; only generate_unit_files changes the unit files directory;
\* only a start_virtiofsd that spawned adds a process, exactly the one
\* returned, and no call removes or changes a process spawned before; a
\* failed spawn is returned as VirtiofsdError and leaves no process.
C11_StatelessAfterConstruction ==
    [][/\ shares # <<>> => shares' = shares
       /\ unit_files' # unit_files => result'.op = "generate_unit_files"
       /\ Len(children') >= Len(children)
       /\ SubSeq(children', 1, Len(children)) = children
       /\ children' # children =>
             /\ result'.op = "start_virtiofsd"
             /\ result'.ret.kind = "Ok"
             /\ result'.env = TRUE
             /\ children' = Append(children, result'.ret.val)
       /\ (result'.op = "start_virtiofsd" /\ result'.ret.kind # "Ok") => children' = children
       /\ (result'.op = "start_virtiofsd" /\ result'.env = FALSE) =>
             \/ result'.ret.kind = "Panic"
             \/ result'.ret.kind = "Err" /\ result'.ret.err = "VirtiofsdError"
       /\ (shares # <<>> /\ result'.op = "Shares::qemu_args") =>
             result'.ret = Shares_qemu_args(shares[1])
       /\ (shares # <<>> /\ result'.op \in {"qemu_args", "mount_unit_content"}) =>
             \E i \in 1..Len(shares[1].shares) :
                /\ result'.arg = shares[1].shares[i]
                /\ result'.op = "qemu_args" =>
                      result'.ret = VirtiofsShare_qemu_args(shares[1].shares[i])
                /\ result'.op = "mount_unit_content" =>
                      result'.ret = mount_unit_content(shares[1].shares[i])
      ]_vars

\* C11 witness: unit files were generated and a daemon was spawned, then
\* the arguments of a Shares of two shares were built
C11_Witness ==
    /\ shares # <<>>
    /\ Len(shares[1].shares) = 2
    /\ unit_files # EmptyDir
    /\ Len(children) = 1
    /\ result.op = "Shares::qemu_args"
    /\ result.ret.kind = "Ok"

====
